---- MODULE Spec2Model ----
(***************************************************************************)
(* Model of the per-service health/alert/restart state machine of          *)
(* src/health_monitor.py: check_service, driven by run_health_check, over  *)
(* the persisted state file.  Time is the wall clock in whole seconds;     *)
(* every datetime.now() of the code is a separate reading of that clock.   *)
(***************************************************************************)
EXTENDS Integers, Sequences, FiniteSets, TLC

VARIABLES
    config_file,  \* the settings block of config.yml
    state_file,   \* contents of state.json ({} while the file does not exist)
    now,          \* the wall clock, in seconds
    runs,         \* number of health-check runs made
    obs,          \* what the last run was given and what it did
    hist,         \* per service: the probe results seen so far (history)
    call,         \* one call of a function of the program: arguments, result
    procs         \* overlapping runs: each process's position and memory

vars == <<config_file, state_file, now, runs, obs, hist, call, procs>>

-----------------------------------------------------------------------------
(* Bounds of the model.                                                    *)

\* Number of health-check runs explored.
MaxCycles == 4

\* Seconds that may pass between two runs: a short pause inside one minute,
\* and a pause that brings the clock to the last minute of the day.
Gaps == {20, 86340}

\* How long one check_service call takes: [probe] seconds pass between the
\* day comparison and the transition's clock reading, [act] seconds (restart,
\* notification) between that reading and the final last_check reading.
Durations == {[probe |-> 0, act |-> 0], [probe |-> 5, act |-> 45]}

-----------------------------------------------------------------------------
(* Optional values: Python None is the empty sequence, a value v is <<v>>. *)

None == << >>

Some(v) == <<v>>

IsSet(o) == o # None

Get(o) == o[1]

-----------------------------------------------------------------------------
(* datetime: a clock reading t (seconds) and its ISO string, modelled as   *)
(* the pair (calendar date, time of day) the string spells out.            *)

SecondsPerDay == 24 * 60 * 60

SecondsPerMinute == 60

isoformat(t) == [date |-> t \div SecondsPerDay, tod |-> t % SecondsPerDay]

fromisoformat(s) == s.date * SecondsPerDay + s.tod

date(t) == t \div SecondsPerDay

\* Python int(x / d): truncation toward zero.
IntDiv(x, d) == IF x >= 0 THEN x \div d ELSE -((-x) \div d)

-----------------------------------------------------------------------------
(* The environment of one check_service call: what the container runtime,  *)
(* the health endpoint and the orchestration commands answer.              *)

\* What the container lookup ends with: the status text of docker ps
\* --format {{.Status}} ("Up" a running status, "Exited" another non-empty
\* status, "" no match), or the command timing out.
DockerAnswers == {"Up", "Exited", "", "timeout"}

\* The response of the health endpoint: a status code, a refused connection
\* or a timeout.
HttpAnswers == {"200", "204", "503", "refused", "timeout"}

\* The outcome of one Telegram send: delivered, credentials missing, a
\* non-200 answer, a transport error.
TelegramAnswers == {"sent", "unconfigured", "http_error", "exception"}

\* The answers the health-check runs are explored with: the container is up
\* and its endpoint answers 200 or refuses the connection.
ProbeEnvs ==
    { [docker |-> "Up", http |-> "200"],
      [docker |-> "Up", http |-> "refused"] }

\* Exit of the two command forms: "ok" exit 0, "fail" non-zero, "timeout",
\* "error" another exception of subprocess.run.
\* The runs are explored with a restart that succeeds at once and one whose
\* two forms both fail.
RestartEnvs ==
    { [primary |-> "ok", legacy |-> "ok"],
      [primary |-> "fail", legacy |-> "fail"] }

Configs ==
    [auto_restart : BOOLEAN, alert_on_restart : BOOLEAN, alert_on_recovery : BOOLEAN]

\* The monitored service of the registry: a docker service with a health
\* endpoint and a compose path that exists.
Service ==
    [name |-> "bridge-1", type |-> "docker", health_endpoint |-> TRUE,
     compose_path |-> TRUE, compose_dir_exists |-> TRUE]

Registry == <<Service>>

-----------------------------------------------------------------------------
(* Prober and Restarter.                                                   *)

\* Messages are the pieces of the message string, in order.
check_docker_container(penv) ==
    IF penv.docker = "timeout"
    THEN [ok |-> FALSE, msg |-> <<"Docker command timeout">>]
    ELSE IF penv.docker # ""
    THEN IF penv.docker = "Up"
         THEN [ok |-> TRUE, msg |-> <<penv.docker>>]
         ELSE [ok |-> FALSE,
               msg |-> <<"Container exists but not running: ", penv.docker>>]
    ELSE [ok |-> FALSE, msg |-> <<"Container not found">>]

\* Mutant: every 2xx status counts as healthy.
check_health_endpoint_Any2xx(penv) ==
    IF penv.http \in {"200", "204"}
    THEN [ok |-> TRUE, msg |-> <<"HTTP 200 OK">>]
    ELSE [ok |-> FALSE, msg |-> <<"HTTP ", penv.http>>]

check_health_endpoint(penv) ==
    IF penv.http = "refused"
    THEN [ok |-> FALSE, msg |-> <<"Connection refused">>]
    ELSE IF penv.http = "timeout"
    THEN [ok |-> FALSE, msg |-> <<"Request timeout">>]
    ELSE IF penv.http = "200"
         THEN [ok |-> TRUE, msg |-> <<"HTTP 200 OK">>]
         ELSE [ok |-> FALSE, msg |-> <<"HTTP ", penv.http>>]

\* The checks of check_service in order, the endpoint only while the service
\* still counts as healthy.  error_msg is the pieces of the message string
\* (none: the empty string); docker_calls and http_calls count the checks
\* made.
Probe(service, penv) ==
    LET c1 == IF service.type = "docker"
              THEN check_docker_container(penv)
              ELSE [ok |-> TRUE, msg |-> << >>]
        n1 == IF service.type = "docker" THEN 1 ELSE 0
        h1 == c1.ok
        e1 == IF c1.ok THEN << >> ELSE c1.msg
    IN  IF h1 /\ service.health_endpoint
        THEN LET c2 == check_health_endpoint(penv)
             IN  IF c2.ok
                 THEN [is_healthy |-> TRUE, error_msg |-> e1,
                       docker_calls |-> n1, http_calls |-> 1]
                 ELSE [is_healthy |-> FALSE,
                       error_msg |-> <<"Health check failed: ">> \o c2.msg,
                       docker_calls |-> n1, http_calls |-> 1]
        ELSE [is_healthy |-> h1, error_msg |-> e1,
              docker_calls |-> n1, http_calls |-> 0]

\* Mutant: both command forms are always run.
restart_service_BothForms(service, renv) ==
    IF ~service.compose_path \/ ~service.compose_dir_exists
    THEN [success |-> FALSE, msg |-> "No compose_path configured", commands |-> << >>]
    ELSE [success |-> renv.primary = "ok" \/ renv.legacy = "ok",
          msg |-> "Restarted successfully",
          commands |-> <<"docker compose", "docker-compose">>]

\* commands: the command forms run, in order.
restart_service(service, renv) ==
    IF ~service.compose_path
    THEN [success |-> FALSE, msg |-> "No compose_path configured", commands |-> << >>]
    ELSE IF ~service.compose_dir_exists
    THEN [success |-> FALSE, msg |-> "Compose path not found", commands |-> << >>]
    ELSE IF renv.primary = "ok"
    THEN [success |-> TRUE, msg |-> "Restarted successfully",
          commands |-> <<"docker compose">>]
    ELSE IF renv.primary = "timeout"
    THEN [success |-> FALSE, msg |-> "Restart timeout (120s)",
          commands |-> <<"docker compose">>]
    ELSE IF renv.primary = "error"
    THEN [success |-> FALSE, msg |-> "Restart error",
          commands |-> <<"docker compose">>]
    ELSE IF renv.legacy = "ok"
    THEN [success |-> TRUE, msg |-> "Restarted successfully",
          commands |-> <<"docker compose", "docker-compose">>]
    ELSE IF renv.legacy = "timeout"
    THEN [success |-> FALSE, msg |-> "Restart timeout (120s)",
          commands |-> <<"docker compose", "docker-compose">>]
    ELSE IF renv.legacy = "error"
    THEN [success |-> FALSE, msg |-> "Restart error",
          commands |-> <<"docker compose", "docker-compose">>]
    ELSE [success |-> FALSE, msg |-> "Restart failed",
          commands |-> <<"docker compose", "docker-compose">>]

\* One Telegram send: TRUE when delivered; every failure is logged and
\* answered with FALSE, none is raised.
send_telegram(tenv) == tenv = "sent"

-----------------------------------------------------------------------------
(* check_service.                                                          *)

DefaultRecord ==
    [last_status |-> "unknown", last_check |-> None, down_since |-> None,
     restart_count_today |-> 0, restart_count_total |-> 0]

\* state.get(name, default record)
StateGet(state, name) ==
    IF name \in DOMAIN state.services THEN state.services[name] ELSE DefaultRecord

\* The date of last_check differs from the date of the clock reading t.
NewDay(last_check, t) ==
    IsSet(last_check) /\ date(fromisoformat(Get(last_check))) # date(t)

\* Mutant: today's count is reset by every cycle.
ResetDaily_EveryCycle(rec, t) == [rec EXCEPT !.restart_count_today = 0]

\* Mutant: the new day resets both restart counters.
ResetDaily_BothCounters(rec, t) ==
    IF NewDay(rec.last_check, t)
    THEN [rec EXCEPT !.restart_count_today = 0, !.restart_count_total = 0]
    ELSE rec

\* Mutant: the new day resets the total instead of today's count.
ResetDaily_ResetsTotal(rec, t) ==
    IF NewDay(rec.last_check, t) THEN [rec EXCEPT !.restart_count_total = 0] ELSE rec

\* Reset daily restart count if new day.
ResetDaily(rec, t) ==
    IF NewDay(rec.last_check, t) THEN [rec EXCEPT !.restart_count_today = 0] ELSE rec

WasHealthy(rec) == rec.last_status = "healthy"

\* Mutant: any healthy cycle after a cycle that was not healthy recovers.
JustRecovered_NotHealthy(rec) == ~WasHealthy(rec)

JustRecovered(rec) == ~WasHealthy(rec) /\ IsSet(rec.down_since)

\* Mutant: every unhealthy cycle counts as the start of an outage.
JustWentDown_EveryCycle(rec) == TRUE

\* Mutant: a never-seen service is not taken as going down.
JustWentDown_HealthyOnly(rec) == WasHealthy(rec)

\* Mutant: only a record still unknown is taken as going down.
JustWentDown_UnknownOnly(rec) == rec.last_status = "unknown"

JustWentDown(rec) == WasHealthy(rec) \/ rec.last_status = "unknown"

\* Mutant: the downtime is rounded up to the next minute.
Downtime_RoundUp(down_since, t) ==
    IF IsSet(down_since)
    THEN (t - fromisoformat(Get(down_since)) + SecondsPerMinute - 1)
            \div SecondsPerMinute
    ELSE 0

\* Minutes between down_since and the clock reading t; a down_since that
\* does not parse (None) raises, and the except branch reports 0.
Downtime(down_since, t) ==
    IF IsSet(down_since)
    THEN IntDiv(t - fromisoformat(Get(down_since)), SecondsPerMinute)
    ELSE 0

\* Mutant: the healthy branch leaves down_since as it was.
OnHealthy_KeepsDownSince(rec, config, tenv, t) ==
    [rec |-> [rec EXCEPT !.last_status = "healthy"],
     recovered |-> IF JustRecovered(rec) /\ config.alert_on_recovery
                   THEN <<[downtime |-> Downtime(rec.down_since, t),
                           delivered |-> send_telegram(tenv)]>>
                   ELSE << >>,
     down |-> << >>,
     restarts |-> << >>]

\* The healthy branch, clock reading t: the record, and the recovered
\* notifications sent (each with the downtime it reports).
OnHealthy(rec, config, tenv, t) ==
    [rec |-> [rec EXCEPT !.last_status = "healthy", !.down_since = None],
     recovered |-> IF JustRecovered(rec) /\ config.alert_on_recovery
                   THEN <<[downtime |-> Downtime(rec.down_since, t),
                           delivered |-> send_telegram(tenv)]>>
                   ELSE << >>,
     down |-> << >>,
     restarts |-> << >>]

\* Mutant: the restart is attempted only on the cycle that starts the outage.
AttemptRestart_EdgeOnly(service, rec, config, renv) ==
    IF config.auto_restart /\ JustWentDown(rec)
    THEN <<restart_service(service, renv)>> ELSE << >>

\* Mutant: the restart is attempted whatever the auto_restart setting.
AttemptRestart_Always(service, rec, config, renv) ==
    <<restart_service(service, renv)>>

\* Restart policy of the unhealthy branch: the calls made to restart_service.
AttemptRestart(service, rec, config, renv) ==
    IF config.auto_restart THEN <<restart_service(service, renv)>> ELSE << >>

\* Whether the down notification is sent in an unhealthy cycle.
SendsDownAlert(rec, config) == config.alert_on_restart

\* Mutant: a successful restart is counted for today only.
CountRestart_TodayOnly(rec, success) ==
    IF success THEN [rec EXCEPT !.restart_count_today = @ + 1] ELSE rec

\* Restart accounting: a successful restart adds one to both counters.
CountRestart(rec, success) ==
    IF success
    THEN [rec EXCEPT !.restart_count_today = @ + 1, !.restart_count_total = @ + 1]
    ELSE rec

\* The unhealthy branch, clock reading t.
OnDown(service, rec, config, probe, renv, tenv, t) ==
    LET r1 == IF JustWentDown(rec)
              THEN [rec EXCEPT !.down_since = Some(isoformat(t))]
              ELSE rec
        r2 == [r1 EXCEPT !.last_status = "down"]
        calls == AttemptRestart(service, rec, config, renv)
        success == calls # << >> /\ calls[1].success
        action == IF calls # << >>
                  THEN "Attempting restart..." ELSE "Manual intervention needed"
        result == IF calls = << >> THEN "Auto-restart disabled"
                  ELSE calls[1].msg
        r3 == CountRestart(r2, success)
    IN  [rec |-> r3,
         recovered |-> << >>,
         down |-> IF SendsDownAlert(rec, config)
                  THEN <<[error |-> probe.error_msg, action |-> action,
                          result |-> result,
                          delivered |-> send_telegram(tenv)]>>
                  ELSE << >>,
         restarts |-> calls]

\* One check_service call.  env: the probe, restart and Telegram answers and
\* the three clock readings t_day (day comparison), t_edge (transition),
\* t_end (last_check).
check_service(service, config, state, env) ==
    LET rec0 == StateGet(state, service.name)
        rec1 == ResetDaily(rec0, env.t_day)
        probe == Probe(service, env.penv)
        br == IF probe.is_healthy
              THEN OnHealthy(rec1, config, env.tenv, env.t_edge)
              ELSE OnDown(service, rec1, config, probe, env.renv, env.tenv,
                          env.t_edge)
    IN  [service_state |-> [br.rec EXCEPT !.last_check = Some(isoformat(env.t_end))],
         is_healthy |-> probe.is_healthy,
         recovered |-> br.recovered,
         down |-> br.down,
         restarts |-> br.restarts]

-----------------------------------------------------------------------------
(* run_health_check.                                                       *)

EmptyState == [services |-> << >>, last_full_check |-> None, services_checked |-> 0]

\* json.load of what json.dump wrote: strings, integers and null come back
\* as they were.
load_state(file) == file

save_state(state) == state

\* Mutant: the assignment drops the records of every other name.
Put_DropsOthers(state, name, rec) ==
    [state EXCEPT !.services = [n \in {name} |-> rec]]

\* state[name] = service_state
Put(state, name, rec) ==
    [state EXCEPT !.services =
        [n \in DOMAIN state.services \cup {name} |->
            IF n = name THEN rec ELSE state.services[n]]]

\* The clock readings of one check_service call that starts at clock t.
EnvAt(input, t) ==
    [penv |-> input.penv, renv |-> input.renv, tenv |-> input.tenv,
     t_day |-> t, t_edge |-> t + input.dur.probe,
     t_end |-> t + input.dur.probe + input.dur.act]

\* The loop over the registry from position i on: services are checked in
\* order, each against the state as the earlier ones left it.
RECURSIVE CheckAll(_, _, _, _, _, _)
CheckAll(services, config, state, inputs, t, i) ==
    IF i > Len(services)
    THEN [state |-> state, envs |-> << >>, outs |-> << >>, t |-> t]
    ELSE LET env == EnvAt(inputs[i], t)
             out == check_service(services[i], config, state, env)
             rest == CheckAll(services, config,
                              Put(state, services[i].name, out.service_state),
                              inputs, env.t_end, i + 1)
         IN  [rest EXCEPT !.envs = <<env>> \o @, !.outs = <<out>> \o @]

\* Mutant: a service found unhealthy ends the run before the state is saved.
run_health_check_AbortsOnFailure(services, config, file, inputs, t) ==
    LET all == CheckAll(services, config, load_state(file), inputs, t, 1)
        stamped == [all.state EXCEPT !.last_full_check = Some(isoformat(all.t)),
                                     !.services_checked = Len(services)]
        failed == \E i \in 1..Len(all.outs) : ~all.outs[i].is_healthy
    IN  [file |-> IF failed THEN file ELSE save_state(stamped),
         envs |-> all.envs, outs |-> all.outs, t |-> all.t]

\* One whole run started at clock t: load, check every service, stamp, save.
run_health_check(services, config, file, inputs, t) ==
    LET all == CheckAll(services, config, load_state(file), inputs, t, 1)
        stamped == [all.state EXCEPT !.last_full_check = Some(isoformat(all.t)),
                                     !.services_checked = Len(services)]
    IN  [file |-> save_state(stamped), envs |-> all.envs, outs |-> all.outs,
         t |-> all.t]

-----------------------------------------------------------------------------
(* History of the probe results, kept beside the program's own record.     *)

NoHistory == [down_run |-> 0, t_down |-> None, prev_down_run |-> 0, prev_t_down |-> None]

\* down_run: how many cycles in a row, the last one included, the probe has
\* reported unhealthy; t_down: the transition reading of the first of them.
Observe(h, out, env) ==
    IF out.is_healthy
    THEN [down_run |-> 0, t_down |-> None,
          prev_down_run |-> h.down_run, prev_t_down |-> h.t_down]
    ELSE [down_run |-> h.down_run + 1,
          t_down |-> IF h.down_run = 0 THEN Some(env.t_edge) ELSE h.t_down,
          prev_down_run |-> h.down_run, prev_t_down |-> h.t_down]

Minute(t) == t \div SecondsPerMinute

\* The restart answers are consulted only by a cycle that restarts: for the
\* others one answer stands for all.
Consulted(config, input) ==
    \/ config.auto_restart /\ ~Probe(Service, input.penv).is_healthy
    \/ input.renv = [primary |-> "ok", legacy |-> "ok"]

Inputs == [penv : ProbeEnvs, renv : RestartEnvs, tenv : {"sent"}, dur : Durations]

SameEnvironment(envs, inputs) ==
    /\ Len(envs) = Len(inputs)
    /\ \A i \in 1..Len(inputs) :
          envs[i].penv = inputs[i].penv /\ envs[i].renv = inputs[i].renv

-----------------------------------------------------------------------------
(* The state machine.                                                      *)

\* No function call under study; no overlapping runs.
NoCall == [fn |-> "none"]

NoProcs == << >>

\* load_config without a config file: the built-in defaults.
DefaultConfig ==
    [auto_restart |-> FALSE, alert_on_restart |-> TRUE, alert_on_recovery |-> TRUE]

Init ==
    /\ config_file = DefaultConfig
    /\ state_file = EmptyState
    /\ now = 0
    /\ runs = 0
    /\ obs = [ran |-> FALSE, edited |-> FALSE, envs |-> << >>, outs |-> << >>,
              repeat |-> FALSE]
    /\ hist = [i \in 1..Len(Registry) |-> NoHistory]
    /\ call = NoCall
    /\ procs = NoProcs

\* The operator edits the settings of config.yml between two runs
\* (obs.edited: the settings are no longer those the last run was given).
EditConfig ==
    /\ runs < MaxCycles
    /\ ~obs.edited
    /\ \E config \in Configs : config # config_file /\ config_file' = config
    /\ obs' = [obs EXCEPT !.edited = TRUE]
    /\ UNCHANGED <<state_file, now, runs, hist, call, procs>>

\* python3 health_monitor.py: main loads the configuration and makes one
\* health-check run, gap seconds after the previous one ended.
RunHealthCheck ==
    /\ runs < MaxCycles
    /\ \E gap \in Gaps, inputs \in [1..Len(Registry) -> Inputs] :
          /\ \A i \in 1..Len(Registry) : Consulted(config_file, inputs[i])
          /\ \E run \in {run_health_check(Registry, config_file, state_file,
                                          inputs, now + gap)} :
                /\ state_file' = run.file
                /\ now' = run.t
                /\ obs' = [ran |-> TRUE, edited |-> FALSE, envs |-> run.envs,
                           outs |-> run.outs,
                           repeat |-> /\ obs.ran
                                      /\ ~obs.edited
                                      /\ SameEnvironment(obs.envs, inputs)
                                      /\ Minute(obs.envs[1].t_day) = Minute(run.t)]
                /\ hist' = [i \in 1..Len(Registry) |->
                               Observe(hist[i], run.outs[i], run.envs[i])]
    /\ runs' = runs + 1
    /\ UNCHANGED <<config_file, call, procs>>

Next == RunHealthCheck \/ EditConfig

Spec == Init /\ [][Next]_vars

-----------------------------------------------------------------------------------------------------------------------------------------------------
(* Service Registry: discover_containers and get_all_services.             *)

\* Names matched by one of the auto-discovery patterns ('bridge', 'nkfx').
MatchesPattern(name) == name \in {"bridge-1", "nkfx-bot"}

\* Names matched by one of the critical patterns ('bridge').
is_critical_container(name) == name = "bridge-1"

Names(services) == {services[i].name : i \in 1..Len(services)}

\* The running containers that match a pattern, each name once.
RECURSIVE DiscoverRunning(_, _, _)
DiscoverRunning(containers, i, found) ==
    IF i > Len(containers) THEN found
    ELSE LET c == containers[i]
         IN  IF MatchesPattern(c) /\ c \notin Names(found)
             THEN DiscoverRunning(containers, i + 1, Append(found,
                      [name |-> c, type |-> "docker",
                       critical |-> is_critical_container(c),
                       auto_discovered |-> TRUE, compose_path |-> None]))
             ELSE DiscoverRunning(containers, i + 1, found)

\* The services of the compose files scanned, each name once.
RECURSIVE DiscoverCompose(_, _, _)
DiscoverCompose(entries, i, found) ==
    IF i > Len(entries) THEN found
    ELSE LET e == entries[i]
         IN  IF e.name \notin Names(found)
             THEN DiscoverCompose(entries, i + 1, Append(found,
                      [name |-> e.name, type |-> "docker",
                       critical |-> is_critical_container(e.name),
                       auto_discovered |-> TRUE, compose_path |-> Some(e.dir)]))
             ELSE DiscoverCompose(entries, i + 1, found)

\* denv: what docker ps lists ("fail": the command fails) and the services
\* of the compose files found, in scan order.
discover_containers(denv) ==
    LET running == IF denv.docker_ps = "fail" THEN << >> ELSE denv.docker_ps
    IN  DiscoverCompose(denv.compose, 1, DiscoverRunning(running, 1, << >>))

\* Merge - don't duplicate, manual config wins.
MergeDiscovered(services, discovered) ==
    services \o SelectSeq(discovered, LAMBDA d : d.name \notin Names(services))

get_all_services(config, denv) ==
    IF config.auto_discovery
    THEN MergeDiscovered(config.services, discover_containers(denv))
    ELSE config.services

-----------------------------------------------------------------------------
(* Single calls of the Registry, the Prober and the Restarter, on every    *)
(* argument of small sets.                                                 *)

StaticDescriptors ==
    [name : {"bridge-1", "nkfx-bot"}, type : {"http"}, critical : BOOLEAN,
     auto_discovered : {FALSE}, compose_path : {None}]

StaticConfigs ==
    {<< >>} \cup {<<a>> : a \in StaticDescriptors}
            \cup {<<a, b>> : a \in StaticDescriptors, b \in StaticDescriptors}

DockerPsAnswers ==
    {"fail", << >>, <<"bridge-1">>, <<"redis", "bridge-1">>, <<"nkfx-bot", "bridge-1">>}

ComposeAnswers ==
    {<< >>,
     <<[dir |-> "/root/nkfx/bots/bridge", name |-> "bridge-1"]>>,
     <<[dir |-> "/root/nkfx/bots/bridge", name |-> "bridge-1"],
       [dir |-> "/root/nkfx/infrastructure", name |-> "redis"]>>,
     <<[dir |-> "/root/nkfx/bots/bot", name |-> "nkfx-bot"],
       [dir |-> "/root/trading-stack-smc", name |-> "nkfx-bot"]>>}

RegistryCalls ==
    [fn : {"get_all_services"}, done : {FALSE},
     config : [services : StaticConfigs, auto_discovery : BOOLEAN],
     denv : [docker_ps : DockerPsAnswers, compose : ComposeAnswers]]

Descriptors ==
    [name : {"bridge-1"}, type : {"docker", "http"}, health_endpoint : BOOLEAN,
     compose_path : BOOLEAN, compose_dir_exists : BOOLEAN]

ProbeCalls ==
    [fn : {"Probe"}, done : {FALSE}, service : Descriptors,
     penv : [docker : DockerAnswers, http : HttpAnswers]]

CommandAnswers == {"ok", "fail", "timeout", "error"}

RestartCalls ==
    [fn : {"restart_service"}, done : {FALSE}, service : Descriptors,
     renv : [primary : CommandAnswers, legacy : CommandAnswers]]

InitCalls ==
    /\ config_file = DefaultConfig
    /\ state_file = EmptyState
    /\ now = 0
    /\ runs = 0
    /\ obs = [ran |-> FALSE, edited |-> FALSE, envs |-> << >>, outs |-> << >>,
              repeat |-> FALSE]
    /\ hist = [i \in 1..Len(Registry) |-> NoHistory]
    /\ call \in RegistryCalls \cup ProbeCalls \cup RestartCalls
    /\ procs = NoProcs

Return(out) ==
    /\ call' = [fn |-> call.fn, done |-> TRUE, args |-> call, out |-> out]
    /\ UNCHANGED <<config_file, state_file, now, runs, obs, hist, procs>>

CallRegistry ==
    /\ call.fn = "get_all_services" /\ ~call.done
    /\ Return(get_all_services(call.config, call.denv))

CallProbe ==
    /\ call.fn = "Probe" /\ ~call.done
    /\ Return(Probe(call.service, call.penv))

CallRestart ==
    /\ call.fn = "restart_service" /\ ~call.done
    /\ Return(restart_service(call.service, call.renv))

NextCalls == CallRegistry \/ CallProbe \/ CallRestart

SpecCalls == InitCalls /\ [][NextCalls]_vars

Returned(fn) == call.fn = fn /\ call.done

\* C13: the merged registry holds no two descriptors of the same name, and a
\* name that is both configured and discovered has exactly one entry, the
\* configured descriptor in every field.
C13_RegistryNamesUnique ==
    Returned("get_all_services") =>
        LET reg == call.out
            static == call.args.config.services
        IN  /\ \A i, j \in 1..Len(reg) : reg[i].name = reg[j].name => i = j
            /\ \A k \in 1..Len(static) :
                  \A i \in 1..Len(reg) :
                      reg[i].name = static[k].name => reg[i] = static[k]

\* C19: the probe is healthy iff (the descriptor is not container-kind or the
\* container check reports a running state) and (no health endpoint is set or
\* the GET answers exactly 200); the GET is issued only when the container
\* check passed or did not apply; a failing container check alone gives the
\* error detail.
C19_ProbeResult ==
    Returned("Probe") =>
        LET svc == call.args.service
            penv == call.args.penv
            containerOk == svc.type # "docker" \/ penv.docker = "Up"
            out == call.out
        IN  /\ out.is_healthy <=>
                  (containerOk /\ (~svc.health_endpoint \/ penv.http = "200"))
            /\ out.http_calls = IF containerOk /\ svc.health_endpoint THEN 1 ELSE 0
            /\ ~containerOk =>
                  out.error_msg =
                      CASE penv.docker = "timeout" -> <<"Docker command timeout">>
                        [] penv.docker = "" -> <<"Container not found">>
                        [] OTHER -> <<"Container exists but not running: ",
                                      penv.docker>>

\* A running container whose endpoint answers 204: probed, and unhealthy.
C19_Witness ==
    /\ Returned("Probe")
    /\ call.args.service.type = "docker"
    /\ call.args.service.health_endpoint
    /\ call.args.penv = [docker |-> "Up", http |-> "204"]
    /\ ~call.out.is_healthy
    /\ call.out.http_calls = 1
    /\ call.out.error_msg = <<"Health check failed: ", "HTTP ", "204">>

\* C20: restart runs no command and fails when the compose path is absent or
\* its directory does not exist; otherwise the primary form runs first, the
\* legacy form only after the primary form failed, the first form that exits
\* zero ends the call with success, and the call fails when every form it ran
\* timed out or exited non-zero.
C20_RestartFallback ==
    Returned("restart_service") =>
        LET svc == call.args.service
            renv == call.args.renv
            out == call.out
            cmds == out.commands
            answer(k) == IF cmds[k] = "docker compose"
                         THEN renv.primary ELSE renv.legacy
        IN  IF ~svc.compose_path \/ ~svc.compose_dir_exists
            THEN cmds = << >> /\ ~out.success
            ELSE /\ Len(cmds) \in {1, 2}
                 /\ cmds[1] = "docker compose"
                 /\ Len(cmds) = 2 =>
                       cmds[2] = "docker-compose" /\ renv.primary # "ok"
                 /\ \A k \in 1..(Len(cmds) - 1) : answer(k) # "ok"
                 /\ out.success <=> answer(Len(cmds)) = "ok"
                 /\ ~out.success <=> \A k \in 1..Len(cmds) : answer(k) # "ok"

\* The primary form exits non-zero and the legacy form restarts the service.
C20_Witness ==
    /\ Returned("restart_service")
    /\ call.args.renv = [primary |-> "fail", legacy |-> "ok"]
    /\ call.out.success
    /\ call.out.commands = <<"docker compose", "docker-compose">>

-----
(* Properties.  The registry holds one service; these name its record, the *)
(* last check_service call on it and its history.                          *)

Name == Service.name

Known == Name \in DOMAIN state_file.services

Rec == state_file.services[Name]

Cycle == obs.outs[1]

Env == obs.envs[1]

H == hist[1]

\* A run has been made and config_file still holds the settings it was given.
JustRan == obs.ran /\ ~obs.edited

\* C1: on a repeated down observation (the probe was already unhealthy in the
\* cycle before) no service-down notification is sent; it is sent only on the
\* cycle that starts the outage.
C1_DownAlertOnlyAtEdge ==
    (JustRan /\ ~Cycle.is_healthy /\ H.prev_down_run >= 1) => Cycle.down = << >>

\* C2: while the probe has been unhealthy for N cycles in a row, down_since is
\* the clock reading of the first of them: set once, then left unchanged.
C2_DownSinceSetOnce ==
    (obs.ran /\ H.down_run >= 1) =>
        /\ Rec.last_status = "down"
        /\ Rec.down_since = Some(isoformat(Get(H.t_down)))

C2_Witness ==
    /\ obs.ran
    /\ H.down_run >= 3
    /\ Env.t_edge > Get(H.t_down)
    /\ Rec.down_since = Some(isoformat(Get(H.t_down)))

\* C3: with auto-restart enabled, every cycle whose probe is unhealthy calls
\* the Restarter exactly once, the first cycle of an outage and the repeated
\* ones alike; a healthy cycle never calls it.
C3_RestartEveryDownCycle ==
    JustRan =>
        /\ (config_file.auto_restart /\ ~Cycle.is_healthy) => Len(Cycle.restarts) = 1
        /\ Cycle.is_healthy => Cycle.restarts = << >>

C3_Witness ==
    /\ JustRan
    /\ config_file.auto_restart
    /\ H.down_run >= 3
    /\ Len(Cycle.restarts) = 1
    /\ Rec.restart_count_total >= 3

\* C4: the first healthy cycle after an outage sends exactly one recovered
\* notification (recovery alerting enabled) and clears down_since; a healthy
\* cycle that follows a healthy cycle sends none.
C4_OneRecoveredAlert ==
    (JustRan /\ Cycle.is_healthy) =>
        /\ (H.prev_down_run >= 1 /\ config_file.alert_on_recovery)
              => Len(Cycle.recovered) = 1
        /\ H.prev_down_run = 0 => Cycle.recovered = << >>
        /\ Rec.down_since = None

C4_Witness ==
    /\ JustRan
    /\ Cycle.is_healthy
    /\ H.prev_down_run >= 2
    /\ config_file.alert_on_recovery
    /\ Len(Cycle.recovered) = 1
    /\ Rec.down_since = None

\* C5: the downtime of a recovered notification is floor((t_recover - t_down)
\* / 60), t_down the reading of the first down cycle of the outage, t_recover
\* the reading of the recovering cycle.
C5_DowntimeMinutes ==
    (obs.ran /\ Cycle.recovered # << >>) =>
        /\ IsSet(H.prev_t_down)
        /\ Cycle.recovered[1].downtime =
              (Env.t_edge - Get(H.prev_t_down)) \div SecondsPerMinute

C5_Witness ==
    /\ obs.ran
    /\ Cycle.recovered # << >>
    /\ H.prev_down_run >= 2
    /\ Cycle.recovered[1].downtime >= 1
    /\ (Env.t_edge - Get(H.prev_t_down)) % SecondsPerMinute # 0

\* A step of RunHealthCheck.
RunStep == runs' = runs + 1

\* The record the run found and the one it left.
Before == StateGet(state_file, Name)

After == state_file'.services[Name]

\* The restart counters gained in the step: 1 when its restart succeeded.
Restarted ==
    IF obs'.outs[1].restarts # << >> /\ obs'.outs[1].restarts[1].success THEN 1 ELSE 0

\* C6: a first cycle on the default unknown record whose probe is unhealthy
\* leaves last_status = down and down_since at the reading of that cycle.
C6_FirstUnhealthy ==
    [][(RunStep /\ ~Known /\ ~obs'.outs[1].is_healthy) =>
          /\ After.last_status = "down"
          /\ After.down_since = Some(isoformat(obs'.envs[1].t_edge))]_vars

C6_Witness ==
    /\ runs = 1
    /\ ~Cycle.is_healthy
    /\ Rec.last_status = "down"
    /\ Rec.down_since = Some(isoformat(Env.t_edge))

\* C7: a first cycle on the default unknown record whose probe is healthy
\* leaves last_status = healthy and sends no recovered notification, whatever
\* the settings; no cycle whose prior record has no down_since sends one.
C7_NoRecoveryWithoutDownSince ==
    [][RunStep =>
          /\ (~Known /\ obs'.outs[1].is_healthy) =>
                After.last_status = "healthy" /\ obs'.outs[1].recovered = << >>
          /\ ~IsSet(Before.down_since) => obs'.outs[1].recovered = << >>]_vars

C7_Witness ==
    /\ runs = 1
    /\ JustRan
    /\ config_file.alert_on_recovery
    /\ Cycle.is_healthy
    /\ Rec.last_status = "healthy"
    /\ Cycle.recovered = << >>

\* C9: restart_count_total never decreases from one state of the record to
\* the next, day boundaries and recoveries included.
C9_TotalNeverDecreases ==
    [][RunStep =>
          After.restart_count_total >= Before.restart_count_total]_vars

\* A new day reset today's count (below the total) and a recovery followed.
C9_Witness ==
    /\ obs.ran
    /\ Cycle.is_healthy
    /\ Rec.restart_count_total >= 2
    /\ Rec.restart_count_today = 0

\* The run left a last_check of another calendar date than it found.
DayCrossed ==
    date(fromisoformat(Get(Before.last_check)))
        # date(fromisoformat(Get(After.last_check)))

\* C8: over the cycles of a service restart_count_today is reset to 0 exactly
\* once per calendar-day boundary crossing, in the cycle that takes last_check
\* to the new date and in no other; the reset never changes
\* restart_count_total.
C8_ResetOncePerDayCrossing ==
    [][(RunStep /\ Known) =>
          /\ After.restart_count_today =
                (IF DayCrossed THEN 0 ELSE Before.restart_count_today) + Restarted
          /\ After.restart_count_total = Before.restart_count_total + Restarted]_vars

\* C10 as stated: a run repeated in the same minute with the same settings,
\* probe result and restart outcome leaves the record as the first run left
\* it, last_check apart.
C10_Idempotent ==
    [][(RunStep /\ obs'.repeat) =>
          After = [Before EXCEPT !.last_check = After.last_check]]_vars

\* C10 as amended: the repeated run leaves the record as the first run left
\* it, apart from last_check and apart from the two restart counters, which
\* are each one higher when the repeated run's restart succeeded.
C10_IdempotentButRestartCount ==
    [][(RunStep /\ obs'.repeat) =>
          After = [Before EXCEPT !.last_check = After.last_check,
                                 !.restart_count_today = @ + Restarted,
                                 !.restart_count_total = @ + Restarted]]_vars

\* A repeated run on a service that stays down, restarted with success.
C10_Witness ==
    /\ obs.ran
    /\ obs.repeat
    /\ ~Cycle.is_healthy
    /\ Cycle.restarts # << >>
    /\ Cycle.restarts[1].success
    /\ Rec.restart_count_total >= 2
    /\ IsSet(Rec.down_since)

-----------------------------------------------------------------------------
(* Restart policy, record invariant, daily reset (C11, C12, C17, C18).     *)

\* restart_count_today as the daily reset of the step leaves it, before the
\* health evaluation: 0 when last_check is of another date than the day
\* comparison's clock reading.
TodayAtEvaluation ==
    IF /\ IsSet(Before.last_check)
       /\ date(fromisoformat(Get(Before.last_check))) # date(obs'.envs[1].t_day)
    THEN 0
    ELSE Before.restart_count_today

\* The restart answers make the restart of the service succeed.
RestartSucceeds(renv) ==
    renv.primary = "ok" \/ (renv.primary = "fail" /\ renv.legacy = "ok")

C17_DownSinceIffDown ==
    LET r == StateGet(state_file, Name)
    IN  /\ r.last_status \in {"healthy", "unknown"} => ~IsSet(r.down_since)
        /\ r.last_status = "down" => IsSet(r.down_since)
        /\ Known => r.last_status # "unknown"

\* Down again after a recovery.
C17_Witness ==
    /\ obs.ran
    /\ runs >= 3
    /\ H.down_run = 1
    /\ Rec.last_status = "down"
    /\ IsSet(Rec.down_since)
    /\ Rec.down_since = Some(isoformat(Env.t_edge))

\* C18: the daily reset comes before the health evaluation: the cycle that
\* takes last_check to a new calendar date, the service unhealthy and its
\* restart successful, ends with restart_count_today = 1 whatever the count
\* was before.
C18_FirstRestartOfDayCountsOne ==
    [][(RunStep /\ Known /\ DayCrossed /\ Restarted = 1) =>
          After.restart_count_today = 1]_vars

-----------------------------------------------------------------------------
(* Runs over a registry of two services that changes between the runs, with *)
(* every kind of failure of the container runtime, the endpoint, the        *)
(* orchestration commands and Telegram.                                     *)

MaxFleetRuns == 2

Service2 == [Service EXCEPT !.name = "nkfx-bot"]

\* What get_all_services returns to a run: both services, or one of them
\* after the other has left the configuration.
Registries == {<<Service, Service2>>, <<Service>>, <<Service2>>}

\* Container up and endpoint 200; endpoint answering 503; docker ps timing
\* out.
FleetProbeEnvs ==
    { [docker |-> "Up", http |-> "200"],
      [docker |-> "Up", http |-> "503"],
      [docker |-> "timeout", http |-> "200"] }

\* The restart succeeds, both forms exit non-zero, the first form times out.
FleetRestartEnvs ==
    { [primary |-> "ok", legacy |-> "ok"],
      [primary |-> "fail", legacy |-> "fail"],
      [primary |-> "timeout", legacy |-> "ok"] }

FleetTelegramAnswers == {"sent", "http_error", "exception"}

FleetInputs ==
    [penv : FleetProbeEnvs, renv : FleetRestartEnvs, tenv : FleetTelegramAnswers,
     dur : {[probe |-> 0, act |-> 0]}]

FleetGaps == {20}

\* Answers that the call does not consult: one stands for all.
FleetConsulted(service, config, state, input) ==
    LET healthy == Probe(service, input.penv).is_healthy
        rec == StateGet(state, service.name)
        alerts == \/ ~healthy /\ SendsDownAlert(rec, config)
                  \/ healthy /\ JustRecovered(rec) /\ config.alert_on_recovery
    IN  /\ IF ~healthy /\ config.auto_restart THEN TRUE
           ELSE input.renv = [primary |-> "ok", legacy |-> "ok"]
        /\ IF alerts THEN TRUE ELSE input.tenv = "sent"

FleetConfig ==
    [auto_restart |-> TRUE, alert_on_restart |-> TRUE, alert_on_recovery |-> TRUE]

InitFleet ==
    /\ config_file = FleetConfig
    /\ state_file = EmptyState
    /\ now = 0
    /\ runs = 0
    /\ obs = [ran |-> FALSE, registry |-> << >>, envs |-> << >>, outs |-> << >>]
    /\ hist = << >>
    /\ call = NoCall
    /\ procs = NoProcs

\* One health-check run over the registry of the moment.
RunFleet ==
    /\ runs < MaxFleetRuns
    /\ \E registry \in Registries, gap \in FleetGaps :
          \E inputs \in [1..Len(registry) -> FleetInputs] :
             /\ \A i \in 1..Len(registry) :
                   FleetConsulted(registry[i], config_file, state_file, inputs[i])
             /\ \E run \in {run_health_check(registry, config_file, state_file,
                                             inputs, now + gap)} :
                   /\ state_file' = run.file
                   /\ now' = run.t
                   /\ obs' = [ran |-> TRUE, registry |-> registry,
                              envs |-> run.envs, outs |-> run.outs]
    /\ runs' = runs + 1
    /\ UNCHANGED <<config_file, hist, call, procs>>

NextFleet == RunFleet

SpecFleet == InitFleet /\ [][NextFleet]_vars

\* The probe, the restart or the notification of the call failed.
ProbeFailed(out) == ~out.is_healthy

RestartFailed(out) == out.restarts # << >> /\ ~out.restarts[1].success

NotifyFailed(out) ==
    \/ out.down # << >> /\ ~out.down[1].delivered
    \/ out.recovered # << >> /\ ~out.recovered[1].delivered

\* C14: whatever the probe, the restart and the notification of a service
\* end with, the run evaluates every service of its registry, in order, and
\* ends by saving the record of each of them, stamped by this run, with the
\* run's own stamp and service count.
C14_FailureIsolation ==
    obs.ran =>
       /\ Len(obs.outs) = Len(obs.registry)
       /\ \A i \in 1..Len(obs.registry) :
             /\ obs.registry[i].name \in DOMAIN state_file.services
             /\ state_file.services[obs.registry[i].name] = obs.outs[i].service_state
             /\ obs.outs[i].service_state.last_check = Some(isoformat(obs.envs[i].t_end))
             /\ obs.outs[i].service_state.last_status =
                   IF Probe(obs.registry[i], obs.envs[i].penv).is_healthy
                   THEN "healthy" ELSE "down"
       /\ state_file.last_full_check = Some(isoformat(now))
       /\ state_file.services_checked = Len(obs.registry)

\* The first service's probe times out, its restart times out and its alert
\* is not delivered; the second service is evaluated and found healthy.
C14_Witness ==
    /\ obs.ran
    /\ Len(obs.registry) = 2
    /\ obs.envs[1].penv.docker = "timeout"
    /\ obs.envs[1].renv.primary = "timeout"
    /\ ProbeFailed(obs.outs[1]) /\ RestartFailed(obs.outs[1]) /\ NotifyFailed(obs.outs[1])
    /\ obs.outs[2].is_healthy
    /\ state_file.services[obs.registry[2].name].last_status = "healthy"
    /\ state_file.services[obs.registry[2].name].last_check = Some(isoformat(now))
    /\ state_file.services[obs.registry[1].name].last_status = "down"

\* C15: a run keeps every recorded name, and leaves the record of a name that
\* is not in its registry as it was.
C15_RecordsNeverDeleted ==
    [][\A n \in DOMAIN state_file.services :
          /\ n \in DOMAIN state_file'.services
          /\ n \notin Names(obs'.registry) =>
                state_file'.services[n] = state_file.services[n]]_vars

\* A service left the registry: its record stays as the earlier run wrote it.
C15_Witness ==
    /\ obs.ran
    /\ runs = 2
    /\ \E n \in DOMAIN state_file.services :
          /\ n \notin Names(obs.registry)
          /\ state_file.services[n].last_status = "down"
          /\ state_file.services[n].last_check # state_file.last_full_check

-----------------------------------------------------------------------------
(* Two invocations of the monitor that may overlap: each loads the state   *)
(* file, checks the services one after the other and saves.  Nothing       *)
(* serializes them.                                                        *)

Procs == {1, 2}

\* reads, writes: how many times the process has read and written the state
\* file; overlap: another run was between its load and its save when this
\* one loaded.
Idle ==
    [pc |-> "idle", state |-> EmptyState, i |-> 1, reads |-> 0, writes |-> 0,
     overlap |-> FALSE]

\* Mutant: every check_service call is given the state file read afresh.
StateForCheck_Reload(proc, file) ==
    [state |-> load_state(file), reads |-> proc.reads + 1]

\* The dictionary check_service is given: the one loaded when the run began,
\* with the records the run has assigned since.
StateForCheck(proc, file) == [state |-> proc.state, reads |-> proc.reads]

InitConc ==
    /\ config_file \in Configs
    /\ state_file = EmptyState
    /\ now = 0
    /\ runs = 0
    /\ obs = [ran |-> FALSE]
    /\ hist = << >>
    /\ call = NoCall
    /\ procs = [p \in Procs |-> Idle]

\* state = load_state()
Start(p) ==
    /\ procs[p].pc = "idle"
    /\ procs' = [procs EXCEPT ![p] =
                    [pc |-> "checking", state |-> load_state(state_file), i |-> 1,
                     reads |-> 1, writes |-> 0,
                     overlap |-> \E q \in Procs \ {p} : procs[q].pc = "checking"]]
    /\ UNCHANGED <<config_file, state_file, now, runs, obs, hist, call>>

\* One turn of the loop: check_service on the next service of the registry.
Check(p) ==
    /\ procs[p].pc = "checking"
    /\ procs[p].i <= Len(Registry)
    /\ \E input \in Inputs :
          /\ Consulted(config_file, input)
          /\ \E given \in {StateForCheck(procs[p], state_file)} :
                LET service == Registry[procs[p].i]
                    env == EnvAt(input, now)
                    out == check_service(service, config_file, given.state, env)
                IN  /\ procs' = [procs EXCEPT ![p].state =
                                       Put(given.state, service.name, out.service_state),
                                    ![p].i = @ + 1,
                                    ![p].reads = given.reads]
                    /\ now' = env.t_end
    /\ UNCHANGED <<config_file, state_file, runs, obs, hist, call>>

\* The stamps and save_state(state): the file becomes the run's dictionary.
Finish(p) ==
    /\ procs[p].pc = "checking"
    /\ procs[p].i > Len(Registry)
    /\ \E stamped \in {[procs[p].state EXCEPT
                              !.last_full_check = Some(isoformat(now)),
                              !.services_checked = Len(Registry)]} :
          /\ state_file' = save_state(stamped)
          /\ procs' = [procs EXCEPT ![p].state = stamped, ![p].pc = "done",
                                    ![p].writes = @ + 1]
    /\ UNCHANGED <<config_file, now, runs, obs, hist, call>>

NextConc == \E p \in Procs : Start(p) \/ Check(p) \/ Finish(p)

SpecConc == InitConc /\ [][NextConc]_vars

\* C16: a run reads the state file once, before it evaluates any service,
\* and writes it once, after it has evaluated all of them; the write replaces
\* the records of the file by those of the run's own dictionary, whatever
\* another run has written meanwhile; only a save changes the file.
C16_ReadOnceWriteOnce ==
    [][/\ \A p \in Procs :
             /\ procs'[p].reads <= 1
             /\ procs'[p].writes <= 1
             /\ procs'[p].i # procs[p].i =>
                   procs[p].reads = 1 /\ procs'[p].reads = 1 /\ procs[p].writes = 0
             /\ procs'[p].writes # procs[p].writes =>
                   /\ procs[p].i > Len(Registry)
                   /\ state_file'.services = procs[p].state.services
       /\ state_file' # state_file =>
             \E p \in Procs : procs'[p].writes = procs[p].writes + 1]_vars

\* Both runs loaded before either saved; one found the service down and
\* restarted it, the other found it healthy and saved last: the restart count
\* and down_since of the first are not in the file.
C16_LostUpdate ==
    /\ \A p \in Procs : procs[p].pc = "done"
    /\ \E p \in Procs : procs[p].overlap
    /\ \E p \in Procs :
          /\ procs[p].state.services[Name].restart_count_total = 1
          /\ IsSet(procs[p].state.services[Name].down_since)
          /\ state_file.services[Name].restart_count_total = 0
          /\ ~IsSet(state_file.services[Name].down_since)

-----------------------------------------------------------------------------
(* The restart counters of the records.                                    *)

\* C22: in every record the health-check runs write, today's restart count
\* is at least 0 and at most the total restart count.
C22_TodayWithinTotal ==
    \A n \in DOMAIN state_file.services :
       /\ 0 <= state_file.services[n].restart_count_today
       /\ state_file.services[n].restart_count_today
             <= state_file.services[n].restart_count_total

\* A restart on one day, the reset of the next day, a restart on that day:
\* today's count is 1 and the total 2.
C22_Witness ==
    /\ JustRan
    /\ Rec.restart_count_today = 1
    /\ Rec.restart_count_total = 2
    /\ date(fromisoformat(Get(Rec.last_check))) >= 1

-----------------------------------------------------------------------------
(* python3 health_monitor.py --daily: send_daily_summary, after the        *)
(* health-check runs that wrote the state file.                            *)

\* What the digest reads of a descriptor.
DigestDescriptors ==
    [name : {"bridge-1", "nkfx-bot"}, critical : BOOLEAN, auto_discovered : {FALSE}]

\* What get_all_services returns to the digest: up to two descriptors, the
\* static configuration free to name a service twice.
DigestRegistries ==
    {<< >>} \cup {<<a>> : a \in DigestDescriptors}
            \cup {<<a, b>> : a \in DigestDescriptors, b \in DigestDescriptors}

\* Mutant: every service recorded down counts as a critical outage.
CountsAsCriticalDown_AnyDown(service, status) == status = "down"

\* status == "down" and service.get("critical")
CountsAsCriticalDown(service, status) == status = "down" /\ service.critical

\* The loop over the services from position i on; acc: the counters and the
\* lines so far.
RECURSIVE DigestLoop(_, _, _, _)
DigestLoop(services, state, i, acc) ==
    IF i > Len(services) THEN acc
    ELSE LET service == services[i]
             svc_state == StateGet(state, service.name)
             status == svc_state.last_status
             restarts == svc_state.restart_count_today
             status_text == IF status = "healthy" THEN "Running"
                            ELSE IF status = "down" THEN "DOWN" ELSE "Unknown"
         IN  DigestLoop(services, state, i + 1,
                [total_restarts |-> acc.total_restarts + restarts,
                 critical_down |-> acc.critical_down +
                     (IF CountsAsCriticalDown(service, status) THEN 1 ELSE 0),
                 auto_discovered_count |-> acc.auto_discovered_count +
                     (IF service.auto_discovered THEN 1 ELSE 0),
                 lines |-> Append(acc.lines,
                     [name |-> service.name, status_text |-> status_text,
                      restarts |-> restarts])])

\* The digest of the state file for the registry: the message's figures, the
\* send, and the calls made to the probes, to restart_service and to
\* save_state (none).
send_daily_summary(services, file, tenv) ==
    LET state == load_state(file)
        sums == DigestLoop(services, state, 1,
                   [total_restarts |-> 0, critical_down |-> 0,
                    auto_discovered_count |-> 0, lines |-> << >>])
    IN  [total_restarts |-> sums.total_restarts,
         critical_down |-> sums.critical_down,
         auto_discovered_count |-> sums.auto_discovered_count,
         lines |-> sums.lines,
         services |-> Len(services),
         delivered |-> send_telegram(tenv),
         docker_calls |-> 0, http_calls |-> 0, restart_calls |-> 0,
         saved |-> << >>]

\* A health-check run, while no digest has been sent.
RunBeforeDigest == call = NoCall /\ RunFleet

\* The digest of the day.
DailySummary ==
    /\ call = NoCall
    /\ \E services \in DigestRegistries, tenv \in FleetTelegramAnswers :
          \E out \in {send_daily_summary(services, state_file, tenv)} :
             /\ call' = [fn |-> "send_daily_summary", services |-> services,
                         out |-> out]
             /\ state_file' = IF out.saved = << >> THEN state_file
                              ELSE out.saved[Len(out.saved)]
    /\ UNCHANGED <<config_file, now, runs, obs, hist, procs>>

NextDigest == RunBeforeDigest \/ DailySummary

SpecDigest == InitFleet /\ [][NextDigest]_vars

DigestStep == call.fn = "none" /\ call'.fn = "send_daily_summary"

\* Sum of restart_count_today over the registry entries at the positions idx.
RECURSIVE SumToday(_, _, _)
SumToday(idx, services, state) ==
    IF idx = {} THEN 0
    ELSE LET i == CHOOSE j \in idx : TRUE
         IN  StateGet(state, services[i].name).restart_count_today
                + SumToday(idx \ {i}, services, state)

\* The registry entries that are critical and recorded down.
CriticalDown(services, state) ==
    {i \in 1..Len(services) :
        /\ services[i].critical
        /\ StateGet(state, services[i].name).last_status = "down"}

\* C21: the digest probes nothing, restarts nothing and leaves the state
\* file as it was; its total of restarts is the sum of restart_count_today
\* over the services of the registry, and its critical-outage count is the
\* number of services of the registry that are critical and recorded down.
C21_DigestFromState ==
    [][DigestStep =>
          LET out == call'.out
              services == call'.services
          IN  /\ state_file' = state_file
              /\ out.docker_calls = 0 /\ out.http_calls = 0
              /\ out.restart_calls = 0
              /\ out.services = Len(services)
              /\ out.total_restarts =
                    SumToday(1..Len(services), services, state_file)
              /\ out.critical_down =
                    Cardinality(CriticalDown(services, state_file))]_vars

\* Two services down and restarted once each today, one of them critical:
\* the digest reports 2 restarts and 1 critical service down.
C21_Witness ==
    /\ call.fn = "send_daily_summary"
    /\ Names(call.services) = {"bridge-1", "nkfx-bot"}
    /\ \A n \in Names(call.services) :
          /\ StateGet(state_file, n).last_status = "down"
          /\ StateGet(state_file, n).restart_count_today = 1
    /\ call.services[1].critical /\ ~call.services[2].critical
    /\ call.out.total_restarts = 2
    /\ call.out.critical_down = 1

====
